---- MODULE Spec2Model ----
(***************************************************************************)
(* Model of src/mohr_stress_circle.py: the class mohr_stress_circle, whose *)
(* constructor stores three stresses, computes the Mohr circle             *)
(* (stress_state), prints it (disp_stress_state) and draws it (plot_msc).  *)
(*                                                                         *)
(* The program computes in binary floating point (Python float and         *)
(* numpy.float64).  The model keeps that arithmetic but in a smaller       *)
(* format of the same kind: Prec significant bits, round to nearest with   *)
(* ties to even, gradual underflow, overflow to infinity, NaN.  A finite   *)
(* number is held as an integer count of units of 2^-FracBits.             *)
(***************************************************************************)
EXTENDS Integers, Sequences, FiniteSets, TLC

----------------------------------------------------------------------------
(* The floating-point format.                                              *)

\* fraction bits of the unit: one unit is 2^-FracBits
FracBits == 8
\* significant bits of a number (53 in float64)
Prec == 14
\* finite numbers are below 2^MaxExp in magnitude (2^1024 in float64)
MaxExp == 14

RECURSIVE Pow2(_)
Pow2(n) == IF n <= 0 THEN 1 ELSE 2 * Pow2(n - 1)

Unit == Pow2(FracBits)
Limit == Pow2(MaxExp + FracBits)

\* float('inf'), float('-inf'), float('nan')
PInf == Limit
NInf == -Limit
NaN == Limit + 1

IsNaN(x) == x = NaN
IsInf(x) == x = PInf \/ x = NInf
IsFinite(x) == NInf < x /\ x < PInf

Abs(n) == IF n < 0 THEN -n ELSE n
Sgn(n) == IF n < 0 THEN -1 ELSE 1
MaxOf(a, b) == IF a >= b THEN a ELSE b
MinOf(a, b) == IF a <= b THEN a ELSE b

RECURSIVE BitLen(_)
BitLen(n) == IF n <= 0 THEN 0 ELSE 1 + BitLen(n \div 2)

\* n / 2^s rounded to the nearest integer, ties to the even one (n >= 0)
RoundShift(n, s) ==
    IF s <= 0 THEN n
    ELSE IF s > BitLen(n) + 1 THEN 0
    ELSE LET d == Pow2(s)
             lo == n \div d
             rem == n % d
             half == d \div 2
             up == rem > half \/ (rem = half /\ lo % 2 = 1)
         IN IF up THEN lo + 1 ELSE lo

\* The float nearest to the exact value n * 2^k units: at most Prec
\* significant bits, a whole number of units, infinite beyond the range.
Fl(n, k) ==
    LET a == Abs(n)
        s == MaxOf(MaxOf(BitLen(a) - Prec, -k), 0)
        m == RoundShift(a, s)
        e == s + k
    IN IF m = 0 THEN 0
       ELSE IF BitLen(m) + e > MaxExp + FracBits THEN Sgn(n) * PInf
       ELSE Sgn(n) * m * Pow2(e)

\* x = Mant(x) * 2^Expo(x) with Mant(x) odd (x a finite nonzero float)
RECURSIVE Expo(_)
Expo(x) == IF x = 0 \/ x % 2 # 0 THEN 0 ELSE 1 + Expo(x \div 2)
Mant(x) == Abs(x) \div Pow2(Expo(Abs(x)))

FNeg(x) == IF IsNaN(x) THEN NaN ELSE -x

\* float + float
FAdd(x, y) ==
    IF IsNaN(x) \/ IsNaN(y) THEN NaN
    ELSE IF IsInf(x) /\ IsInf(y) THEN (IF x = y THEN x ELSE NaN)
    ELSE IF IsInf(x) THEN x
    ELSE IF IsInf(y) THEN y
    ELSE Fl(x + y, 0)

\* float - float
FSub(x, y) == FAdd(x, FNeg(y))

\* float / 2
FDiv2(x) == IF IsFinite(x) THEN Fl(x, -1) ELSE x

\* float ** 2 where the result is in range
FSquare(x) ==
    IF IsNaN(x) THEN NaN
    ELSE IF IsInf(x) THEN PInf
    ELSE Fl(Mant(x) * Mant(x), 2 * Expo(Abs(x)) - FracBits)

\* float ** 2 raises OverflowError when a finite operand's square is out of range
PowOverflows(x) == IsFinite(x) /\ FSquare(x) = PInf

RECURSIVE ISqrt(_)
ISqrt(n) ==
    IF n < 2 THEN n
    ELSE LET s == 2 * ISqrt(n \div 4)
         IN IF (s + 1) * (s + 1) <= n THEN s + 1 ELSE s

\* numpy.sqrt: the correctly rounded square root (x >= 0)
FSqrt(x) ==
    IF IsNaN(x) \/ x < 0 THEN NaN
    ELSE IF x = PInf THEN PInf
    ELSE IF x = 0 THEN 0
    ELSE LET g == Expo(x) + FracBits
             m2 == IF g % 2 = 1 THEN 2 * Mant(x) ELSE Mant(x)
             h == IF g % 2 = 1 THEN (g - 1) \div 2 ELSE g \div 2
             j == MinOf(h, (2 * Prec - BitLen(m2)) \div 2)
             M == m2 * Pow2(2 * j)
             s0 == ISqrt(M)
             r == IF M > s0 * s0 + s0 THEN s0 + 1 ELSE s0
         IN r * Pow2(h - j)

----------------------------------------------------------------------------
(* Conversions used by the report and the plot.                            *)

\* a slip: the hundredths truncated rather than rounded
NpRound2Truncates(x) ==
    IF ~IsFinite(x) THEN x
    ELSE LET y == Fl(x * 100, 0)
         IN IF ~IsFinite(y) THEN y
            ELSE Sgn(y) * (Abs(y) \div Unit)

\* numpy.round(x, 2): x is multiplied by 100 in floating point and the
\* product rounded to the nearest integer, ties to even; that integer, the
\* number of hundredths, is what the printed decimal shows.
NpRound2(x) ==
    IF ~IsFinite(x) THEN x
    ELSE LET y == Fl(x * 100, 0)
         IN IF ~IsFinite(y) THEN y
            ELSE Sgn(y) * RoundShift(Abs(y), FracBits)

\* round(x, 2) of Python: the exact value rounded to hundredths, ties to even
PyRound2(x) ==
    IF ~IsFinite(x) THEN x
    ELSE Sgn(x) * RoundShift(Abs(x) * 100, FracBits)

\* int(x): truncation toward zero (x finite)
IntOf(x) == Sgn(x) * (Abs(x) \div Unit)

\* int(x) raises OverflowError on an infinity and ValueError on a NaN
IntRaises(x) ==
    IF IsInf(x) THEN "OverflowError"
    ELSE IF IsNaN(x) THEN "ValueError"
    ELSE "None"

----------------------------------------------------------------------------
(* The arguments the model constructs the object from.                     *)

\* the instance the module builds when it is run: mohr_stress_circle(90, -60, 20)
ExampleSigmaX == 90
ExampleSigmaY == -60
ExampleShear == 20

\* whole numbers -MaxSmall .. MaxSmall are among the arguments
MaxSmall == 2

\* the largest power of two of the format
Huge == Pow2(MaxExp + FracBits - 1)

\* stresses of ordinary size: small whole numbers, a half, the example's
OrdinaryValues ==
    {n * Unit : n \in -MaxSmall..MaxSmall}
      \cup {ExampleSigmaX * Unit, ExampleSigmaY * Unit, ExampleShear * Unit}
      \cup {Unit \div 2}

\* stresses at the ends of the range: one unit, the smallest positive
\* number, and the largest power of two with either sign
ExtremeValues == {Unit \div Unit, Huge, -Huge}

InputValues == OrdinaryValues \cup ExtremeValues

\* a field that has not been assigned yet
Unset == Limit + 2

----------------------------------------------------------------------------
(* The object and its environment.                                         *)

VARIABLES
    pc,                  \* position of the constructor
    exc,                 \* the exception that ended it, or "None"
    args,                \* the arguments of the call
    sigmax, sigmay, shear_stress, initial_values,
    center, radius, max_normal_stress, min_normal_stress, max_shear_stress,
    stress_state_values,
    stdout,              \* the lines printed
    figure,              \* what has been drawn on the axes
    shown,               \* whether plt.show() displayed the figure
    calls                \* the methods __init__ has called so far, in order

inputs == <<args, sigmax, sigmay, shear_stress, initial_values>>
derived == <<center, radius, max_normal_stress, min_normal_stress,
             max_shear_stress, stress_state_values>>
vars == <<pc, exc, inputs, derived, stdout, figure, shown, calls>>

Init ==
    /\ pc = "start"
    /\ exc = "None"
    /\ \/ args \in OrdinaryValues \X OrdinaryValues \X OrdinaryValues
       \/ /\ args \in InputValues \X InputValues \X InputValues
          /\ {args[1], args[2], args[3]} \cap ExtremeValues # {}
    /\ sigmax = Unset /\ sigmay = Unset /\ shear_stress = Unset
    /\ initial_values = << >>
    /\ center = << >>
    /\ radius = Unset
    /\ max_normal_stress = Unset
    /\ min_normal_stress = Unset
    /\ max_shear_stress = Unset
    /\ stress_state_values = << >>
    /\ stdout = << >>
    /\ figure = << >>
    /\ shown = FALSE
    /\ calls = << >>

\* __init__, lines 20-25: the three fields and the dictionary of them
StoreInputs ==
    /\ pc = "start"
    /\ sigmax' = args[1]
    /\ sigmay' = args[2]
    /\ shear_stress' = args[3]
    /\ initial_values' = << <<"sigma x", args[1]>>, <<"sigma y", args[2]>>,
                            <<"shear stress", args[3]>> >>
    /\ pc' = "stored"
    /\ UNCHANGED <<exc, args, derived, stdout, figure, shown, calls>>

\* a slip: the difference where the sum belongs
CenterOfDifference(sx, sy) == << FDiv2(FSub(sx, sy)), 0 >>

\* the center of the circle, an array of two floats
CenterOf(sx, sy) == << FDiv2(FAdd(sx, sy)), 0 >>

\* a slip: sigmax - sigmay / 2, the parentheses forgotten
HalfDiffPrecedence(sx, sy) == FSub(sx, FDiv2(sy))

\* the half difference of the normal stresses
HalfDiff(sx, sy) == FDiv2(FSub(sx, sy))

\* a slip: the difference not halved
SumOfSquaresNoHalf(sx, sy, ss) == FAdd(FSquare(FSub(sx, sy)), FSquare(ss))

\* the sum under the square root
SumOfSquares(sx, sy, ss) == FAdd(FSquare(HalfDiff(sx, sy)), FSquare(ss))

\* whether evaluating the radius raises OverflowError
RadiusRaises(sx, sy, ss) == PowOverflows(HalfDiff(sx, sy)) \/ PowOverflows(ss)

RadiusOf(sx, sy, ss) == FSqrt(SumOfSquares(sx, sy, ss))

MaxNormalOf(c, r) == FAdd(c[1], r)
\* a slip: np.add copied where np.subtract belongs
MinNormalOfAdds(c, r) == FAdd(c[1], r)
MinNormalOf(c, r) == FSub(c[1], r)
MaxShearOf(r) == r

\* stress_state, called from __init__ line 27
StressState ==
    /\ pc = "stored"
    /\ center' = CenterOf(sigmax, sigmay)
    /\ IF RadiusRaises(sigmax, sigmay, shear_stress)
       THEN /\ pc' = "raised"
            /\ exc' = "OverflowError"
            /\ UNCHANGED <<radius, max_normal_stress, min_normal_stress,
                           max_shear_stress, stress_state_values>>
       ELSE LET c == CenterOf(sigmax, sigmay)
                r == RadiusOf(sigmax, sigmay, shear_stress)
            IN /\ radius' = r
               /\ max_normal_stress' = MaxNormalOf(c, r)
               /\ min_normal_stress' = MinNormalOf(c, r)
               /\ max_shear_stress' = MaxShearOf(r)
               /\ stress_state_values' =
                    << <<"Center", c>>, <<"Radius", r>>,
                       <<"Maximum normal stress", MaxNormalOf(c, r)>>,
                       <<"Minimum normal stress", MinNormalOf(c, r)>>,
                       <<"Maximum shear stress", MaxShearOf(r)>> >>
               /\ pc' = "computed"
               /\ exc' = exc
    /\ calls' = Append(calls, "stress_state")
    /\ UNCHANGED <<inputs, stdout, figure, shown>>

\* a printed value: the center array element by element, the others as scalars
Rounded(k, v) == IF k = "Center" THEN [i \in 1..Len(v) |-> NpRound2(v[i])]
                 ELSE NpRound2(v)

InitialLines(iv) == [i \in 1..Len(iv) |-> <<iv[i][1], PyRound2(iv[i][2])>>]
StateLines(sv) == [i \in 1..Len(sv) |-> <<sv[i][1], Rounded(sv[i][1], sv[i][2])>>]

\* a slip: the report rounds the radius in place (self.radius = np.round(...))
DispStressStateInPlace ==
    /\ pc = "computed"
    /\ stdout' = stdout \o << <<"Initial stress state of a point:">> >>
                        \o InitialLines(initial_values)
                        \o << <<"Stress values for the given stress element are:">> >>
                        \o StateLines(stress_state_values)
    /\ radius' = IF IsFinite(NpRound2(radius))
                 THEN Fl((NpRound2(radius) * Unit) \div 100, 0)
                 ELSE radius
    /\ pc' = "reported"
    /\ calls' = Append(calls, "disp_stress_state")
    /\ UNCHANGED <<exc, inputs, center, max_normal_stress, min_normal_stress,
                   max_shear_stress, stress_state_values, figure, shown>>

\* disp_stress_state, called from __init__ line 28
DispStressState ==
    /\ pc = "computed"
    /\ stdout' = stdout \o << <<"Initial stress state of a point:">> >>
                        \o InitialLines(initial_values)
                        \o << <<"Stress values for the given stress element are:">> >>
                        \o StateLines(stress_state_values)
    /\ pc' = "reported"
    /\ calls' = Append(calls, "disp_stress_state")
    /\ UNCHANGED <<exc, inputs, derived, figure, shown>>

\* the offset of a label from the point it names
Offset == 1

\* a slip: the shear stress of the opposite point not negated
LinePointsSameSign(sx, sy, ss, c) == << <<sx, ss>>, <<c[1], c[2]>>, <<sy, ss>> >>

\* the red line through the stress point, the center and the opposite point
LinePoints(sx, sy, ss, c) == << <<sx, ss>>, <<c[1], c[2]>>, <<sy, FNeg(ss)>> >>

\* the circle: its 361 plotted points center + radius cos(t), radius sin(t)
\* are fixed by the center and the radius, which is what is recorded
CirclePlot(c, r) == [center |-> c[1], radius |-> r]

Sigma1Text(mx, c) == [x |-> FAdd(mx, Offset * Unit), y |-> c[2],
                      text |-> <<"sigma_1", NpRound2(mx)>>]
Sigma2Text(mn, c) == [x |-> FAdd(mn, Offset * Unit), y |-> c[2],
                      text |-> <<"sigma_2", NpRound2(mn)>>]
TauMaxText(ms, c) == [x |-> c[1], y |-> FAdd(ms, Offset * Unit),
                      text |-> <<"tau_max", NpRound2(ms)>>]
CenterText(c) == [x |-> c[1], y |-> FAdd(c[2], Offset * Unit),
                  text |-> <<"C", IntOf(c[1]), IntOf(c[2])>>]

\* whether building the center label raises, and what
CenterTextRaises(c) ==
    IF IntRaises(c[1]) # "None" THEN IntRaises(c[1]) ELSE IntRaises(c[2])

\* plot_msc, called from __init__ line 29
PlotMsc ==
    /\ pc = "reported"
    /\ LET drawn == [circle |-> CirclePlot(center, radius),
                     line |-> LinePoints(sigmax, sigmay, shear_stress, center),
                     texts |-> << Sigma1Text(max_normal_stress, center),
                                  Sigma2Text(min_normal_stress, center),
                                  TauMaxText(max_shear_stress, center) >>]
       IN IF CenterTextRaises(center) # "None"
          THEN /\ figure' = drawn
               /\ exc' = CenterTextRaises(center)
               /\ pc' = "raised"
               /\ shown' = FALSE
          ELSE /\ figure' = [drawn EXCEPT !.texts = Append(@, CenterText(center))]
               /\ exc' = exc
               /\ pc' = "rendered"
               /\ shown' = TRUE
    /\ calls' = Append(calls, "plot_msc")
    /\ UNCHANGED <<inputs, derived, stdout>>

Next == StoreInputs \/ StressState \/ DispStressState \/ PlotMsc

Spec == Init /\ [][Next]_vars

----------------------------------------------------------------------------
(* Exact arithmetic for stating the properties: products that do not fit   *)
(* a machine integer are held as three limbs, most significant first.      *)

Base == Pow2(15)

\* the product a * b of two naturals below 2^29
WMul(a, b) ==
    LET a1 == a \div Base
        a0 == a % Base
        b1 == b \div Base
        b0 == b % Base
        p0 == a0 * b0
        t1 == a1 * b0 + a0 * b1 + p0 \div Base
    IN << a1 * b1 + t1 \div Base, t1 % Base, p0 % Base >>

WAdd(x, y) ==
    LET s0 == x[3] + y[3]
        s1 == x[2] + y[2] + s0 \div Base
    IN << x[1] + y[1] + s1 \div Base, s1 % Base, s0 % Base >>

WLeq(x, y) ==
    \/ x[1] < y[1]
    \/ x[1] = y[1] /\ x[2] < y[2]
    \/ x[1] = y[1] /\ x[2] = y[2] /\ x[3] <= y[3]

\* the spacing of the floats around x, in units
UlpOf(x) == Pow2(MaxOf(BitLen(Abs(x)) - Prec, 0))

\* r is within half a spacing of the exact square root of q
NearestRoot(r, q) ==
    LET h == UlpOf(r)
        target == WMul(4 * q, Unit)
    IN IF r = 0 THEN q = 0
       ELSE /\ 2 * r >= h
            /\ WLeq(WMul(2 * r - h, 2 * r - h), target)
            /\ WLeq(target, WMul(2 * r + h, 2 * r + h))

\* stress_state has assigned the radius and the values derived from it
Computed == radius # Unset

\* stress_state has run, to its end or to the exception
CenterSet == center # << >>

----------------------------------------------------------------------------
(* C1 as stated: after stress_state the radius is non-negative, its square *)
(* equals ((sigmax - sigmay)/2)^2 + shear_stress^2, and it is 0 exactly    *)
(* when sigmax = sigmay and shear_stress = 0.                              *)
C1_RadiusSquaredIsSum ==
    Computed =>
        /\ radius >= 0
        /\ FSquare(radius) =
             FAdd(FSquare(FDiv2(FSub(sigmax, sigmay))), FSquare(shear_stress))
        /\ (radius = 0 <=> (sigmax = sigmay /\ shear_stress = 0))

(* C1 as amended: after stress_state the radius is non-negative and is the *)
(* floating-point number nearest the exact square root of the computed sum *)
(* q = ((sigmax - sigmay)/2)^2 + shear_stress^2 (within half a spacing, so *)
(* its square matches q only up to rounding; infinite when q is); it is 0  *)
(* exactly when q is 0, which is the case when sigmax = sigmay and         *)
(* shear_stress = 0 and otherwise only when both squares underflow.        *)
C1_RadiusIsRoundedRoot ==
    Computed =>
        LET d == FDiv2(FSub(sigmax, sigmay))
            q == FAdd(FSquare(d), FSquare(shear_stress))
        IN /\ radius >= 0
           /\ ~IsNaN(radius)
           /\ (q = PInf <=> radius = PInf)
           /\ IsFinite(q) => NearestRoot(radius, q)
           /\ (radius = 0 <=> q = 0)
           /\ (sigmax = sigmay /\ shear_stress = 0) => radius = 0
           /\ radius = 0 =>
                /\ 2 * d * d <= Unit
                /\ 2 * shear_stress * shear_stress <= Unit

\* the radius of an ordinary case whose root is not representable
C1_Witness ==
    /\ Computed
    /\ IsFinite(radius)
    /\ radius > 0
    /\ FSquare(radius) # FAdd(FSquare(FDiv2(FSub(sigmax, sigmay))), FSquare(shear_stress))

C3_PrincipalStressesExact ==
    Computed =>
        /\ max_normal_stress = FAdd(center[1], radius)
        /\ min_normal_stress = FSub(center[1], radius)
        /\ max_shear_stress = radius
        /\ FSub(max_normal_stress, min_normal_stress) = FAdd(radius, radius)
        /\ min_normal_stress <= center[1]
        /\ center[1] <= max_normal_stress

(* C3 as amended: max_normal_stress and min_normal_stress are center +     *)
(* radius and center - radius each rounded to the nearest float,           *)
(* max_shear_stress = radius, min <= center <= max, and for finite values  *)
(* max - min differs from 2 radius by at most the two roundings (half a    *)
(* spacing of max plus half a spacing of min).                             *)
C3_PrincipalStressesRounded ==
    Computed =>
        /\ max_normal_stress = FAdd(center[1], radius)
        /\ min_normal_stress = FSub(center[1], radius)
        /\ max_shear_stress = radius
        /\ ~IsNaN(max_normal_stress) /\ ~IsNaN(min_normal_stress)
        /\ min_normal_stress <= center[1]
        /\ center[1] <= max_normal_stress
        /\ (IsFinite(max_normal_stress) /\ IsFinite(min_normal_stress)) =>
             2 * Abs((max_normal_stress - min_normal_stress) - 2 * radius)
               <= UlpOf(max_normal_stress) + UlpOf(min_normal_stress)

\* finite principal stresses whose difference is not twice the radius
C3_Witness ==
    /\ Computed
    /\ IsFinite(max_normal_stress) /\ IsFinite(min_normal_stress)
    /\ radius > 0
    /\ max_normal_stress - min_normal_stress # 2 * radius

(* C4: the stress state built from (sigmay, sigmax, shear_stress) has the  *)
(* same center and the same radius (and fails in the same cases) as the    *)
(* one built from (sigmax, sigmay, shear_stress), and its red line carries *)
(* the opposite shear sign at each normal stress: the line drawn runs from *)
(* (sigmax, shear) to (sigmay, -shear), the swapped one from (sigmay,      *)
(* shear) to (sigmax, -shear).                                             *)
C4_SwapSymmetry ==
    /\ CenterSet =>
         /\ center = << FDiv2(FAdd(sigmay, sigmax)), 0 >>
         /\ Computed <=> ~( \/ PowOverflows(FDiv2(FSub(sigmay, sigmax)))
                            \/ PowOverflows(shear_stress) )
    /\ Computed =>
         radius = FSqrt(FAdd(FSquare(FDiv2(FSub(sigmay, sigmax))),
                             FSquare(shear_stress)))
    /\ figure # << >> =>
         LET swapped == LinePoints(sigmay, sigmax, shear_stress, center)
         IN /\ figure.line[1] = <<sigmax, shear_stress>>
            /\ figure.line[3] = <<sigmay, FNeg(shear_stress)>>
            /\ swapped[1] = <<sigmay, shear_stress>>
            /\ swapped[3] = <<sigmax, FNeg(shear_stress)>>
            /\ swapped[2] = figure.line[2]

\* a drawn line between different normal stresses with a shear stress
C4_Witness ==
    /\ figure # << >>
    /\ sigmax # sigmay
    /\ shear_stress # 0
    /\ IsFinite(radius)
    /\ radius > 0

\* the value printed under a label of the report
Reported(label) ==
    stdout[CHOOSE i \in 1..Len(stdout) : stdout[i][1] = label][2]

IsExample ==
    args = <<ExampleSigmaX * Unit, ExampleSigmaY * Unit, ExampleShear * Unit>>

(* C5 as stated: for sigmax=90, sigmay=-60, shear_stress=20 the report     *)
(* shows center 15, radius 77.63, maximum normal stress 92.63, minimum     *)
(* normal stress -62.63 and maximum shear stress 77.63 (in hundredths).    *)
C5_ExampleAsStated ==
    (IsExample /\ stdout # << >>) =>
        /\ Reported("Center") = <<1500, 0>>
        /\ Reported("Radius") = 7763
        /\ Reported("Maximum normal stress") = 9263
        /\ Reported("Minimum normal stress") = -6263
        /\ Reported("Maximum shear stress") = 7763

(* C5 as amended: for sigmax=90, sigmay=-60, shear_stress=20 the report    *)
(* shows center 15, radius 77.62, maximum normal stress 92.62, minimum     *)
(* normal stress -62.62 and maximum shear stress 77.62 (in hundredths).    *)
C5_ExampleReport ==
    (IsExample /\ pc # "start" /\ pc # "stored") =>
        /\ pc # "raised"
        /\ stdout # << >> =>
             /\ Reported("Center") = <<1500, 0>>
             /\ Reported("Radius") = 7762
             /\ Reported("Maximum normal stress") = 9262
             /\ Reported("Minimum normal stress") = -6262
             /\ Reported("Maximum shear stress") = 7762

\* the example instance after its report
C5_Witness ==
    /\ IsExample
    /\ pc = "reported"
    /\ Len(stdout) = 10

\* __init__ has returned or raised
Ended == pc = "rendered" \/ pc = "raised"

(* C6: constructing the object from any three numbers never reaches an     *)
(* error state, and once stress_state has run all five derived values are  *)
(* defined.                                                                *)
C6_NoErrorState ==
    /\ exc = "None"
    /\ pc # "raised"
    /\ calls # << >> =>
         /\ center # << >>
         /\ radius # Unset
         /\ max_normal_stress # Unset
         /\ min_normal_stress # Unset
         /\ max_shear_stress # Unset

(* C7: every construction performs exactly one stress_state, then exactly  *)
(* one disp_stress_state, then exactly one plot_msc: the report and the    *)
(* render start only after all five derived values are computed, the       *)
(* render only after the report has finished, and the construction ends    *)
(* with all three done.                                                    *)
C7_ComputeReportRender ==
    /\ calls \in { << >>, <<"stress_state">>,
                   <<"stress_state", "disp_stress_state">>,
                   <<"stress_state", "disp_stress_state", "plot_msc">> }
    /\ Len(calls) >= 2 => (Computed /\ Len(stdout) = 10)
    /\ stdout # << >> => Computed
    /\ figure # << >> => Len(stdout) = 10
    /\ Ended =>
         /\ calls = <<"stress_state", "disp_stress_state", "plot_msc">>
         /\ Len(stdout) = 10
         /\ shown

(* C8: the stress state is immutable once computed: no step changes the    *)
(* three inputs or initial_values once stored, disp_stress_state and       *)
(* plot_msc change none of the five derived values, and the values drawn   *)
(* are the values reported.                                                *)
C8_Immutable ==
    /\ [][ /\ pc # "start" =>
                UNCHANGED <<args, sigmax, sigmay, shear_stress, initial_values>>
           /\ Computed => UNCHANGED derived ]_vars
    /\ [](figure # << >> =>
            /\ figure.circle = [center |-> center[1], radius |-> radius]
            /\ figure.line[1] = <<args[1], args[3]>>
            /\ figure.line[2] = center
            /\ figure.texts[1].text[2] = Reported("Maximum normal stress")
            /\ figure.texts[2].text[2] = Reported("Minimum normal stress")
            /\ figure.texts[3].text[2] = Reported("Maximum shear stress")
            /\ Reported("Radius") = NpRound2(radius)
            /\ Reported("Maximum normal stress") = NpRound2(max_normal_stress)
            /\ Reported("Minimum normal stress") = NpRound2(min_normal_stress)
            /\ Reported("sigma x") = PyRound2(args[1]))

\* a circle with a radius, reported and drawn
C8_Witness ==
    /\ pc = "rendered"
    /\ IsFinite(radius)
    /\ radius > 0
    /\ Len(stdout) = 10

(* C9: the center annotation drawn by plot_msc shows the center: the two   *)
(* numbers of the label C(x, y) are the coordinates of the center.         *)
C9_CenterLabelShowsCenter ==
    pc = "rendered" =>
        /\ Len(figure.texts) = 4
        /\ figure.texts[4].text[1] = "C"
        /\ figure.texts[4].text[2] * Unit = center[1]
        /\ figure.texts[4].text[3] * Unit = center[2]

\* the exact squared distance of a drawn point from the drawn center
SquaredDistance(p, c) ==
    WAdd(WMul(Abs(p[1] - c[1]), Abs(p[1] - c[1])),
         WMul(Abs(p[2] - c[2]), Abs(p[2] - c[2])))

\* the rounding allowed between the radius and a point's distance
Tolerance == UlpOf(radius) + UlpOf(sigmax) + UlpOf(sigmay) + ISqrt(Unit)

OnCircleWithin(p, c, tol) ==
    LET lo == MaxOf(radius - tol, 0)
        hi == radius + tol
    IN /\ WLeq(WMul(lo, lo), SquaredDistance(p, c))
       /\ WLeq(SquaredDistance(p, c), WMul(hi, hi))

AllFinite ==
    /\ IsFinite(center[1]) /\ IsFinite(radius)
    /\ IsFinite(sigmax) /\ IsFinite(sigmay) /\ IsFinite(shear_stress)

====
